---- MODULE Spec2Model ----
(***************************************************************************)
(* A model of the rules engine of smart_skin (src/skincare.py, class       *)
(* SkincareCompanion): the ingredient table, the conflict analysis, the    *)
(* application schedule, the climate adjustment and the climate lookup.    *)
(*                                                                         *)
(* The engine is a set of synchronous methods over two static tables and   *)
(* the caller's product list.  The state of the model is the two tables of *)
(* the object (self), the caller's product list, the last call made        *)
(* (method and arguments), the value that call returned, and a returned    *)
(* value the caller has kept from an earlier call together with the list   *)
(* it then had.  The caller edits its list between calls as the product    *)
(* form of SkincareAppGUI does: add, update, remove, clear.  Python's None *)
(* is the string "None"; a Python string that the code takes apart is a    *)
(* sequence: the frequency text one of one-character strings, a text of    *)
(* the product form one of blanks (" "), commas (",") and words, a word    *)
(* being a run of the text that holds no comma and neither starts nor ends *)
(* with a blank.  Every other string is a TLA+ string.                     *)
(***************************************************************************)
EXTENDS Integers, Sequences, FiniteSets, TLC

VARIABLES self, products, call, ret, kept

vars == <<self, products, call, ret, kept>>

None == "None"

(***************************************************************************)
(* Bounds of the model.                                                    *)
(***************************************************************************)
MaxProducts == 2

MaxIngredients == 2

MaxDays == 7

(***************************************************************************)
(* Python helpers.                                                         *)
(***************************************************************************)
\* x in list
InList(x, list) == \E n \in 1..Len(list) : list[n] = x

\* the concatenation of a sequence of sequences, in order (nested appends)
RECURSIVE Flatten(_)
Flatten(ss) == IF ss = <<>> THEN <<>> ELSE Head(ss) \o Flatten(Tail(ss))

\* dict.update / keyword attributes: the keys of new override those of old
Update(old, new) ==
    [k \in DOMAIN old \cup DOMAIN new |-> IF k \in DOMAIN new THEN new[k] ELSE old[k]]

\* the sequences over S of length at most n
SeqsUpTo(S, n) == UNION {[1..k -> S] : k \in 0..n}

(***************************************************************************)
(* Frequency texts, as sequences of characters.                            *)
(***************************************************************************)
once_daily == <<"o","n","c","e"," ","d","a","i","l","y">>

twice_daily == <<"t","w","i","c","e"," ","d","a","i","l","y">>

times_weekly_2_3 == <<"2","-","3"," ","t","i","m","e","s"," ","w","e","e","k","l","y">>

weekly == <<"w","e","e","k","l","y">>

(***************************************************************************)
(* self.ingredient_interactions                                            *)
(***************************************************************************)
ingredient_interactions ==
    ("retinol" :> [conflicts |-> <<"glycolic acid", "salicylic acid", "vitamin c", "benzoyl peroxide">>,
                   waiting_time |-> 30, frequency |-> once_daily,
                   climate_adjustments |->
                      [high_humidity |-> "reduce concentration", low_humidity |-> "add moisturizer after",
                       high_uv |-> "night only", high_pollution |-> "follow with antioxidants"]])
 @@ ("vitamin c" :> [conflicts |-> <<"retinol", "glycolic acid", "niacinamide">>,
                     waiting_time |-> 15, frequency |-> once_daily,
                     climate_adjustments |->
                        [high_humidity |-> "lighter formulation", low_humidity |-> "standard application",
                         high_uv |-> "morning application", high_pollution |-> "increase frequency"]])
 @@ ("niacinamide" :> [conflicts |-> <<"vitamin c">>,
                       waiting_time |-> 10, frequency |-> twice_daily,
                       climate_adjustments |->
                          [high_humidity |-> "standard application", low_humidity |-> "use with hyaluronic acid",
                           high_uv |-> "combine with sunscreen", high_pollution |-> "standard application"]])
 @@ ("hyaluronic acid" :> [conflicts |-> <<>>,
                           waiting_time |-> 1, frequency |-> twice_daily,
                           climate_adjustments |->
                            [high_humidity |-> "standard application", low_humidity |-> "apply to damp skin",
                             high_uv |-> "standard application", high_pollution |-> "standard application"]])
 @@ ("glycolic acid" :> [conflicts |-> <<"retinol", "vitamin c", "salicylic acid">>,
                         waiting_time |-> 20, frequency |-> times_weekly_2_3,
                         climate_adjustments |->
                            [high_humidity |-> "standard application", low_humidity |-> "reduce frequency",
                             high_uv |-> "night only", high_pollution |-> "standard application"]])
 @@ ("salicylic acid" :> [conflicts |-> <<"retinol", "glycolic acid">>,
                          waiting_time |-> 20, frequency |-> times_weekly_2_3,
                          climate_adjustments |->
                             [high_humidity |-> "standard application", low_humidity |-> "reduce frequency",
                              high_uv |-> "night only", high_pollution |-> "standard application"]])
 @@ ("benzoyl peroxide" :> [conflicts |-> <<"retinol", "vitamin c">>,
                            waiting_time |-> 20, frequency |-> once_daily,
                            climate_adjustments |->
                               [high_humidity |-> "standard application", low_humidity |-> "follow with moisturizer",
                                high_uv |-> "night only", high_pollution |-> "standard application"]])
 @@ ("azelaic acid" :> [conflicts |-> <<>>,
                        waiting_time |-> 10, frequency |-> twice_daily,
                        climate_adjustments |->
                            [high_humidity |-> "standard application", low_humidity |-> "standard application",
                             high_uv |-> "standard application", high_pollution |-> "standard application"]])
 @@ ("peptides" :> [conflicts |-> <<"acids">>,
                    waiting_time |-> 10, frequency |-> twice_daily,
                    climate_adjustments |->
                            [high_humidity |-> "standard application", low_humidity |-> "standard application",
                             high_uv |-> "standard application", high_pollution |-> "standard application"]])

(***************************************************************************)
(* self.climate_effects; the categories of a tag in the order items()      *)
(* yields them.                                                            *)
(***************************************************************************)
climate_effects ==
    [high_humidity |->
        [recommended |-> <<"lightweight moisturizer", "oil-free", "mattifying">>,
         avoid |-> <<"heavy oils", "thick creams", "oil-based products">>,
         increase |-> <<"exfoliation">>,
         decrease |-> <<"heavy hydration">>],
     low_humidity |->
        [recommended |-> <<"rich moisturizer", "facial oils", "hydrating masks">>,
         avoid |-> <<"harsh cleansers", "alcohol-based products">>,
         increase |-> <<"hydration layers">>,
         decrease |-> <<"exfoliation frequency">>],
     high_uv |->
        [recommended |-> <<"sunscreen", "antioxidants", "vitamin C">>,
         avoid |-> <<"photosensitizing ingredients during day">>,
         increase |-> <<"sun protection">>,
         decrease |-> <<"exfoliation">>],
     high_pollution |->
        [recommended |-> <<"double cleansing", "antioxidants", "barrier repair">>,
         avoid |-> <<"skip cleansing">>,
         increase |-> <<"antioxidant protection">>,
         decrease |-> <<>>]]

Categories == <<"recommended", "avoid", "increase", "decrease">>

(***************************************************************************)
(* analyze_skincare_routine                                                *)
(***************************************************************************)
\* the waiting time read from the entry of ingredient2, 0 without an entry
ConflictRecordsOtherWait(product1, ingredient1, product2) ==
    LET conflict_list == ingredient_interactions[ingredient1].conflicts
        hits == SelectSeq(product2.ingredients, LAMBDA ingredient2 : InList(ingredient2, conflict_list))
    IN  [n \in 1..Len(hits) |->
            [product1 |-> product1.name,
             ingredient1 |-> ingredient1,
             product2 |-> product2.name,
             ingredient2 |-> hits[n],
             waiting_time |-> IF hits[n] \in DOMAIN ingredient_interactions
                              THEN ingredient_interactions[hits[n]].waiting_time
                              ELSE 0]]

\* lines 197-205: the records of one (product1, ingredient1, product2)
ConflictRecords(product1, ingredient1, product2) ==
    LET conflict_list == ingredient_interactions[ingredient1].conflicts
        hits == SelectSeq(product2.ingredients, LAMBDA ingredient2 : InList(ingredient2, conflict_list))
    IN  [n \in 1..Len(hits) |->
            [product1 |-> product1.name,
             ingredient1 |-> ingredient1,
             product2 |-> product2.name,
             ingredient2 |-> hits[n],
             waiting_time |-> ingredient_interactions[ingredient1].waiting_time]]

\* products told apart by name, not by value
ConflictsOfIngredientByName(prods, product1, ingredient1) ==
    Flatten([k \in 1..Len(prods) |->
                IF product1.name # prods[k].name
                THEN ConflictRecords(product1, ingredient1, prods[k])
                ELSE <<>>])

\* lines 195-196: the loop over product2, skipping a product equal to product1
ConflictsOfIngredient(prods, product1, ingredient1) ==
    Flatten([k \in 1..Len(prods) |->
                IF product1 # prods[k]
                THEN ConflictRecords(product1, ingredient1, prods[k])
                ELSE <<>>])

\* lines 192-193: the loop over ingredient1, registered ingredients only
ConflictsOfProduct(prods, product1) ==
    Flatten([j \in 1..Len(product1.ingredients) |->
                IF product1.ingredients[j] \in DOMAIN ingredient_interactions
                THEN ConflictsOfIngredient(prods, product1, product1.ingredients[j])
                ELSE <<>>])

\* lines 190-205
Conflicts(prods) ==
    Flatten([i \in 1..Len(prods) |-> ConflictsOfProduct(prods, prods[i])])

\* nx.Graph(): nodes map a key to its attributes, edges map an unordered pair
EmptyGraph == [nodes |-> <<>>, edges |-> <<>>]

\* G.add_node(n, **attrs)
AddNode(G, n, attrs) ==
    [G EXCEPT !.nodes =
        IF n \in DOMAIN G.nodes
        THEN [G.nodes EXCEPT ![n] = Update(@, attrs)]
        ELSE (n :> attrs) @@ G.nodes]

\* an edge already there keeps the attributes it has
AddEdgeKeep(G, u, v, attrs) ==
    LET G1 == IF u \in DOMAIN G.nodes THEN G ELSE AddNode(G, u, <<>>)
        G2 == IF v \in DOMAIN G1.nodes THEN G1 ELSE AddNode(G1, v, <<>>)
    IN  [G2 EXCEPT !.edges =
            IF {u, v} \in DOMAIN G2.edges
            THEN G2.edges
            ELSE ({u, v} :> attrs) @@ G2.edges]

\* G.add_edge(u, v, **attrs): missing end points become nodes without attributes
AddEdge(G, u, v, attrs) ==
    LET G1 == IF u \in DOMAIN G.nodes THEN G ELSE AddNode(G, u, <<>>)
        G2 == IF v \in DOMAIN G1.nodes THEN G1 ELSE AddNode(G1, v, <<>>)
    IN  [G2 EXCEPT !.edges =
            IF {u, v} \in DOMAIN G2.edges
            THEN [G2.edges EXCEPT ![{u, v}] = Update(@, attrs)]
            ELSE ({u, v} :> attrs) @@ G2.edges]

\* lines 215-218: the ingredients of one product, from the j-th on
RECURSIVE AddIngredients(_, _, _)
AddIngredients(G, product, j) ==
    IF j > Len(product.ingredients) THEN G
    ELSE LET ingredient == product.ingredients[j]
             G1 == IF ingredient \notin DOMAIN G.nodes
                   THEN AddNode(G, ingredient, [type |-> "ingredient"])
                   ELSE G
         IN  AddIngredients(AddEdge(G1, product.name, ingredient, [type |-> "contains"]),
                            product, j + 1)

\* lines 211-218: the products from the i-th on
RECURSIVE AddProducts(_, _, _)
AddProducts(G, prods, i) ==
    IF i > Len(prods) THEN G
    ELSE AddProducts(
            AddIngredients(AddNode(G, prods[i].name, [type |-> "product"]), prods[i], 1),
            prods, i + 1)

\* lines 221-224: the conflict edges, from the n-th conflict on
RECURSIVE AddConflicts(_, _, _)
AddConflicts(G, conflicts, n) ==
    IF n > Len(conflicts) THEN G
    ELSE LET conflict == conflicts[n]
         IN  AddConflicts(
                IF conflict.ingredient1 \in DOMAIN G.nodes /\ conflict.ingredient2 \in DOMAIN G.nodes
                THEN AddEdge(G, conflict.ingredient1, conflict.ingredient2,
                             [type |-> "conflict", waiting_time |-> conflict.waiting_time])
                ELSE G,
                conflicts, n + 1)

analyze_skincare_routine(prods) ==
    LET conflicts == Conflicts(prods)
    IN  [conflicts |-> conflicts,
         graph |-> AddConflicts(AddProducts(EmptyGraph, prods, 1), conflicts, 1)]

(***************************************************************************)
(* create_application_schedule                                             *)
(***************************************************************************)
\* sub in s, for strings
Contains(s, sub) ==
    \E i \in 0..(Len(s) - Len(sub)) : SubSeq(s, i + 1, i + Len(sub)) = sub

\* s.split(sep)[0]: the text before the first sep, all of s when there is none
RECURSIVE SplitFirst(_, _)
SplitFirst(s, sep) ==
    IF s = <<>> \/ Head(s) = sep THEN <<>> ELSE <<Head(s)>> \o SplitFirst(Tail(s), sep)

\* s.split()[0]: the first word, leading blanks skipped
RECURSIVE FirstWord(_)
FirstWord(s) ==
    IF s # <<>> /\ Head(s) = " " THEN FirstWord(Tail(s)) ELSE SplitFirst(s, " ")

Digit == ("0" :> 0) @@ ("1" :> 1) @@ ("2" :> 2) @@ ("3" :> 3) @@ ("4" :> 4)
      @@ ("5" :> 5) @@ ("6" :> 6) @@ ("7" :> 7) @@ ("8" :> 8) @@ ("9" :> 9)

\* int(s) of a non-empty text of decimal digits (any other text raises ValueError)
RECURSIVE ParseInt(_)
ParseInt(s) ==
    IF Len(s) = 1 THEN Digit[s[1]]
    ELSE 10 * ParseInt(SubSeq(s, 1, Len(s) - 1)) + Digit[s[Len(s)]]

Max(a, b) == IF a >= b THEN a ELSE b

\* lines 237-238
ActiveIngredients(product) ==
    SelectSeq(product.ingredients, LAMBDA i : i \in DOMAIN ingredient_interactions)

\* benzoyl peroxide taken for a night ingredient too
TimeSlotNight(primary_active) ==
    IF InList(primary_active, <<"retinol", "glycolic acid", "benzoyl peroxide">>)
    THEN "evening" ELSE "morning"

\* lines 258 and 265
TimeSlot(primary_active) ==
    IF InList(primary_active, <<"retinol", "glycolic acid">>) THEN "evening" ELSE "morning"

\* the interval taken from the 7 days of a week, not from the schedule length
IntervalOfWeek(freq, days) ==
    LET times == ParseInt(SplitFirst(FirstWord(freq), "-"))
    IN  Max(1, 7 \div times)

\* the weekly count read after the hyphen: 3 of "2-3"
IntervalUpper(freq, days) ==
    LET word == FirstWord(freq)
        times == ParseInt(SubSeq(word, Len(SplitFirst(word, "-")) + 2, Len(word)))
    IN  Max(1, days \div times)

\* lines 262-263
Interval(freq, days) ==
    LET times == ParseInt(SplitFirst(FirstWord(freq), "-"))
    IN  Max(1, days \div times)

\* range(0, days+1, interval): the days counted from 0
RangeFromZero(days, interval) == {day \in 0..days : day % interval = 0}

\* range(1, days+1, interval)
Range(days, interval) == {day \in 1..days : (day - 1) % interval = 0}

\* "both" taken by the morning test alone, the evening test an elif
DailyPlacementElif(product, days) ==
    {<<day, "morning">> : day \in {d \in 1..days : InList(product.preferred_time, <<"morning", "both">>)}}
    \cup
    {<<day, "evening">> : day \in {d \in 1..days : product.preferred_time = "evening"}}

\* lines 242-246: a product without active ingredients, by its preferred time
DailyPlacement(product, days) ==
    {<<day, "morning">> : day \in {d \in 1..days : InList(product.preferred_time, <<"morning", "both">>)}}
    \cup
    {<<day, "evening">> : day \in {d \in 1..days : InList(product.preferred_time, <<"evening", "both">>)}}

\* a twice-daily product kept to the slots of its preferred time
ActivePlacementPreferred(product, primary_active, days) ==
    LET freq == ingredient_interactions[primary_active].frequency
    IN  IF freq = twice_daily
        THEN DailyPlacement(product, days)
        ELSE IF freq = once_daily
        THEN (1..days) \X {TimeSlot(primary_active)}
        ELSE IF Contains(freq, weekly)
        THEN Range(days, Interval(freq, days)) \X {TimeSlot(primary_active)}
        ELSE {}

\* lines 250-266: a product with active ingredients, by the frequency of the first
ActivePlacement(product, primary_active, days) ==
    LET freq == ingredient_interactions[primary_active].frequency
    IN  IF freq = twice_daily
        THEN (1..days) \X {"morning", "evening"}
        ELSE IF freq = once_daily
        THEN (1..days) \X {TimeSlot(primary_active)}
        ELSE IF Contains(freq, weekly)
        THEN Range(days, Interval(freq, days)) \X {TimeSlot(primary_active)}
        ELSE {}

\* the last active ingredient taken for the governing one
PlacementLast(product, days) ==
    LET active_ingredients == ActiveIngredients(product)
    IN  IF active_ingredients = <<>>
        THEN DailyPlacement(product, days)
        ELSE ActivePlacement(product, active_ingredients[Len(active_ingredients)], days)

\* lines 237-266: the (day, slot) pairs to which the name of the product is appended
Placement(product, days) ==
    LET active_ingredients == ActiveIngredients(product)
    IN  IF active_ingredients = <<>>
        THEN DailyPlacement(product, days)
        ELSE ActivePlacement(product, active_ingredients[1], days)

\* the name put in front of the names already in the slot
ScheduleProductInFront(schedule, product, days) ==
    LET placement == Placement(product, days)
    IN  [day \in 1..days |->
            [morning |-> IF <<day, "morning">> \in placement
                         THEN <<product.name>> \o schedule[day].morning
                         ELSE schedule[day].morning,
             evening |-> IF <<day, "evening">> \in placement
                         THEN <<product.name>> \o schedule[day].evening
                         ELSE schedule[day].evening]]

\* the appends of one product
ScheduleProduct(schedule, product, days) ==
    LET placement == Placement(product, days)
    IN  [day \in 1..days |->
            [morning |-> IF <<day, "morning">> \in placement
                         THEN Append(schedule[day].morning, product.name)
                         ELSE schedule[day].morning,
             evening |-> IF <<day, "evening">> \in placement
                         THEN Append(schedule[day].evening, product.name)
                         ELSE schedule[day].evening]]

\* line 236: the products from the i-th on
RECURSIVE ScheduleProducts(_, _, _, _)
ScheduleProducts(schedule, prods, days, i) ==
    IF i > Len(prods) THEN schedule
    ELSE ScheduleProducts(ScheduleProduct(schedule, prods[i], days), prods, days, i + 1)

\* an empty mapping returned at once for an empty product list
create_application_schedule_guarded(prods, days) ==
    IF prods = <<>> THEN <<>>
    ELSE ScheduleProducts([i \in 1..days |-> [morning |-> <<>>, evening |-> <<>>]], prods, days, 1)

create_application_schedule(prods, days) ==
    ScheduleProducts([i \in 1..days |-> [morning |-> <<>>, evening |-> <<>>]], prods, days, 1)

(***************************************************************************)
(* adjust_for_climate                                                      *)
(***************************************************************************)
\* the humidity thresholds taken as reached at 20
ClimateChangesAtLeast(home_climate, destination_climate) ==
    (IF destination_climate.humidity - home_climate.humidity >= 20
     THEN <<"high_humidity">>
     ELSE IF home_climate.humidity - destination_climate.humidity >= 20
     THEN <<"low_humidity">>
     ELSE <<>>)
    \o
    (IF destination_climate.uv_index - home_climate.uv_index > 2
     THEN <<"high_uv">> ELSE <<>>)
    \o
    (IF destination_climate.pollution_index - home_climate.pollution_index > 20
     THEN <<"high_pollution">> ELSE <<>>)

\* the UV threshold taken as reached at 2
ClimateChangesUvAtLeast(home_climate, destination_climate) ==
    (IF destination_climate.humidity - home_climate.humidity > 20
     THEN <<"high_humidity">>
     ELSE IF home_climate.humidity - destination_climate.humidity > 20
     THEN <<"low_humidity">>
     ELSE <<>>)
    \o
    (IF destination_climate.uv_index - home_climate.uv_index >= 2
     THEN <<"high_uv">> ELSE <<>>)
    \o
    (IF destination_climate.pollution_index - home_climate.pollution_index > 20
     THEN <<"high_pollution">> ELSE <<>>)

\* lines 275-285
ClimateChanges(home_climate, destination_climate) ==
    (IF destination_climate.humidity - home_climate.humidity > 20
     THEN <<"high_humidity">>
     ELSE IF home_climate.humidity - destination_climate.humidity > 20
     THEN <<"low_humidity">>
     ELSE <<>>)
    \o
    (IF destination_climate.uv_index - home_climate.uv_index > 2
     THEN <<"high_uv">> ELSE <<>>)
    \o
    (IF destination_climate.pollution_index - home_climate.pollution_index > 20
     THEN <<"high_pollution">> ELSE <<>>)

\* lines 295-304: the records of one ingredient of a product
IngredientAdjustments(product, ingredient, climate_changes) ==
    LET table == ingredient_interactions[ingredient].climate_adjustments
        hits == SelectSeq(climate_changes, LAMBDA c : c \in DOMAIN table /\ table[c] # "")
    IN  [n \in 1..Len(hits) |->
            [product |-> product.name,
             ingredient |-> ingredient,
             climate_factor |-> hits[n],
             adjustment |-> table[hits[n]]]]

\* the two loops the other way round: the tag outside, the ingredient inside
ProductAdjustmentsByTag(product, climate_changes) ==
    LET active_ingredients == ActiveIngredients(product)
    IN  Flatten([c \in 1..Len(climate_changes) |->
            Flatten([j \in 1..Len(active_ingredients) |->
                IngredientAdjustments(product, active_ingredients[j], <<climate_changes[c]>>)])])

\* lines 290-304
ProductAdjustments(product, climate_changes) ==
    LET active_ingredients == ActiveIngredients(product)
    IN  Flatten([j \in 1..Len(active_ingredients) |->
                    IngredientAdjustments(product, active_ingredients[j], climate_changes)])

\* every category of the tag taken, "increase" and "decrease" too
GeneralAdjustmentsEveryCategory(climate_change) ==
    Flatten([c \in 1..Len(Categories) |->
                LET items == climate_effects[climate_change][Categories[c]]
                IN  [n \in 1..Len(items) |->
                        [product |-> None,
                         ingredient |-> None,
                         climate_factor |-> climate_change,
                         adjustment_type |-> Categories[c],
                         adjustment |-> items[n]]]])

\* lines 316-325: the general records of one tag
GeneralAdjustments(climate_change) ==
    Flatten([c \in 1..Len(Categories) |->
                IF InList(Categories[c], <<"recommended", "avoid">>)
                THEN LET items == climate_effects[climate_change][Categories[c]]
                     IN  [n \in 1..Len(items) |->
                            [product |-> None,
                             ingredient |-> None,
                             climate_factor |-> climate_change,
                             adjustment_type |-> Categories[c],
                             adjustment |-> items[n]]]
                ELSE <<>>])

\* adjusted_routine holding only the products that got an adjustment
adjust_for_climate_adjusted_only(routine, home_climate, destination_climate) ==
    LET climate_changes == ClimateChanges(home_climate, destination_climate)
    IN  [climate_changes |-> climate_changes,
         adjusted_routine |->
            SelectSeq(routine, LAMBDA product : ProductAdjustments(product, climate_changes) # <<>>),
         adjustments |->
            Flatten([i \in 1..Len(routine) |-> ProductAdjustments(routine[i], climate_changes)])
            \o
            Flatten([c \in 1..Len(climate_changes) |->
                        IF climate_changes[c] \in DOMAIN climate_effects
                        THEN GeneralAdjustments(climate_changes[c])
                        ELSE <<>>])]

\* lines 270-331
adjust_for_climate(routine, home_climate, destination_climate) ==
    LET climate_changes == ClimateChanges(home_climate, destination_climate)
    IN  [climate_changes |-> climate_changes,
         adjusted_routine |-> routine,
         adjustments |->
            Flatten([i \in 1..Len(routine) |-> ProductAdjustments(routine[i], climate_changes)])
            \o
            Flatten([c \in 1..Len(climate_changes) |->
                        IF climate_changes[c] \in DOMAIN climate_effects
                        THEN GeneralAdjustments(climate_changes[c])
                        ELSE <<>>])]

(***************************************************************************)
(* get_climate_data                                                        *)
(***************************************************************************)
climate_data ==
    ("New York" :> [humidity |-> 60, uv_index |-> 5, pollution_index |-> 40])
 @@ ("Los Angeles" :> [humidity |-> 50, uv_index |-> 8, pollution_index |-> 60])
 @@ ("Miami" :> [humidity |-> 80, uv_index |-> 9, pollution_index |-> 30])
 @@ ("Denver" :> [humidity |-> 25, uv_index |-> 7, pollution_index |-> 20])
 @@ ("Seattle" :> [humidity |-> 70, uv_index |-> 4, pollution_index |-> 25])
 @@ ("Phoenix" :> [humidity |-> 20, uv_index |-> 10, pollution_index |-> 45])
 @@ ("Chicago" :> [humidity |-> 55, uv_index |-> 5, pollution_index |-> 50])
 @@ ("Honolulu" :> [humidity |-> 75, uv_index |-> 10, pollution_index |-> 15])
 @@ ("Tokyo" :> [humidity |-> 65, uv_index |-> 6, pollution_index |-> 70])
 @@ ("London" :> [humidity |-> 75, uv_index |-> 3, pollution_index |-> 45])
 @@ ("Dubai" :> [humidity |-> 60, uv_index |-> 11, pollution_index |-> 65])
 @@ ("Sydney" :> [humidity |-> 60, uv_index |-> 9, pollution_index |-> 25])

default_data == [humidity |-> 50, uv_index |-> 5, pollution_index |-> 40]

\* the lookup made without regard to case
get_climate_data_nocase(location) ==
    LET key == IF location = "miami" THEN "Miami"
               ELSE IF location = "NEW YORK" THEN "New York"
               ELSE location
    IN  IF key \in DOMAIN climate_data THEN climate_data[key] ELSE default_data

\* line 409
get_climate_data(location) ==
    IF location \in DOMAIN climate_data THEN climate_data[location] ELSE default_data

(***************************************************************************)
(* The inputs the callers draw from.                                       *)
(***************************************************************************)
Registered == DOMAIN ingredient_interactions

\* ingredient names: the registered ones, the name "acids" that peptides lists
\* as a conflict, and a name that no table mentions
Ingredients == Registered \cup {"acids", "glycerin"}

Names == {"A", "B"}

Times == {"morning", "evening", "both"}

ProductsOver(names, ingredients, times) ==
    [name : names, ingredients : SeqsUpTo(ingredients, MaxIngredients), preferred_time : times]

\* the routines of the conflict analysis: every ingredient name
AnalyzeRoutines ==
    SeqsUpTo(ProductsOver(Names, Ingredients, {"morning", "evening"}), MaxProducts)

\* the routines of the schedule: one ingredient of every frequency and slot
\* rule, benzoyl peroxide, and an unregistered name
ScheduleIngredients ==
    {"retinol", "vitamin c", "benzoyl peroxide", "niacinamide",
     "glycolic acid", "salicylic acid", "glycerin"}

\* a name is only ever copied and compared with another: the first product is
\* named "A", the others have either name
ScheduleRoutines ==
    {routine \in SeqsUpTo(ProductsOver(Names, ScheduleIngredients, Times), MaxProducts) :
        routine # <<>> => routine[1].name = "A"}

\* the ingredients of the climate adjustment: two with directives that
\* differ, one without directives
ClimateIngredients == {"retinol", "vitamin c", "glycerin"}

\* the routines of the climate adjustment; a name is only ever copied: the
\* first product is named "A", the others have either name
ClimateRoutines ==
    {routine \in SeqsUpTo(ProductsOver(Names, ClimateIngredients, {"both"}), MaxProducts) :
        routine # <<>> => routine[1].name = "A"}

\* the products of the whole engine
RoutineProducts ==
    ProductsOver(Names, {"retinol", "vitamin c", "glycerin"}, {"morning", "both"})

\* the routines of the whole engine
Routines == SeqsUpTo(RoutineProducts, MaxProducts)

\* the products of the repeated calls: a name is only ever copied
TwiceProducts == ProductsOver({"A"}, {"retinol", "vitamin c"}, {"morning"})

TwiceRoutines == SeqsUpTo(TwiceProducts, MaxProducts)

\* s.strip() of a form text
RECURSIVE StripLeft(_)
StripLeft(text) ==
    IF text # <<>> /\ Head(text) = " " THEN StripLeft(Tail(text)) ELSE text

RECURSIVE StripRight(_)
StripRight(text) ==
    IF text # <<>> /\ text[Len(text)] = " "
    THEN StripRight(SubSeq(text, 1, Len(text) - 1))
    ELSE text

Strip(text) == StripRight(StripLeft(text))

\* s.split(sep): the pieces between the separators, one piece for a text
\* without separator, the empty text included
RECURSIVE Split(_, _)
Split(text, sep) ==
    LET first == SplitFirst(text, sep)
    IN  IF Len(first) = Len(text) THEN <<first>>
        ELSE <<first>> \o Split(SubSeq(text, Len(first) + 2, Len(text)), sep)

\* the string of a stripped text of at most one word
Word(text) == IF text = <<>> THEN "" ELSE text[1]

\* the words with capital letters that the forms hold, in lower case
lower_case == ("Retinol" :> "retinol") @@ ("Vitamin C" :> "vitamin c")

\* s.lower() of a word
Lower(word) == IF word \in DOMAIN lower_case THEN lower_case[word] ELSE word

\* lines 704 and 741: [i.strip().lower() for i in text.split(",") if i.strip()]
ParseIngredients(ingredients_text) ==
    LET pieces == Split(ingredients_text, ",")
        kept_pieces == SelectSeq(pieces, LAMBDA i : Strip(i) # <<>>)
    IN  [n \in 1..Len(kept_pieces) |-> Lower(Word(Strip(kept_pieces[n])))]

\* line 687: ", ".join(product["ingredients"])
RECURSIVE Join(_)
Join(ingredients) ==
    IF ingredients = <<>> THEN <<>>
    ELSE IF Len(ingredients) = 1 THEN <<ingredients[1]>>
    ELSE <<ingredients[1], ",", " ">> \o Join(Tail(ingredients))

\* lines 681-688: the form as load_product_details fills it from a product
LoadProductDetails(product) ==
    [name |-> <<product.name>>,
     ingredients_text |-> Join(product.ingredients),
     preferred_time |-> product.preferred_time]

\* what the product form can hold when it is submitted: the fields as loaded
\* from a product of the universe, the name left empty or blank, the
\* ingredient text made of a separator alone, or typed with capitals, blanks
\* and empty items
Forms(universe) ==
    LET loaded == {LoadProductDetails(product) : product \in universe}
    IN  loaded
        \cup {[form EXCEPT !.name = <<>>] : form \in loaded}
        \cup {[form EXCEPT !.name = <<" ">>] : form \in loaded}
        \cup {[form EXCEPT !.name = <<" ", form.name[1], " ">>] : form \in loaded}
        \cup {[form EXCEPT !.ingredients_text = <<" ">>] : form \in loaded}
        \cup {[form EXCEPT !.ingredients_text = <<",">>] : form \in loaded}
        \cup {[form EXCEPT !.ingredients_text =
                    <<" ", "Retinol", " ", ",", ",", " ", "Vitamin C">>] : form \in loaded}

\* location names: the table's, and names the table does not hold
Locations == DOMAIN climate_data \cup {"Nonexistent City", "miami", "NEW YORK", ""}

\* the profiles get_climate_data returns
TableProfiles == {get_climate_data(location) : location \in Locations}

\* profiles whose differences lie on both sides of every threshold, and on it
GridProfiles ==
    [humidity : {40, 60, 81}, uv_index : {5, 7, 8}, pollution_index : {30, 50, 71}]

\* a destination more than 20 points of humidity above New York
Humid == [humidity |-> 85, uv_index |-> 9, pollution_index |-> 30]

ClimatePairs ==
    (GridProfiles \X GridProfiles) \cup (TableProfiles \X (TableProfiles \cup {Humid}))

(***************************************************************************)
(* The calls.  The caller is idle (call.op = "none") or holds the value of *)
(* the call it made; a call reads the tables of the object, which no       *)
(* method assigns to, leaves the caller's product list alone and returns a *)
(* fresh value.                                                            *)
(***************************************************************************)
Idle == call.op = "none"

Analyze ==
    /\ Idle
    /\ call' = [op |-> "analyze"]
    /\ ret' = analyze_skincare_routine(products)
    /\ UNCHANGED <<self, products, kept>>

CreateSchedule ==
    \E days \in 0..MaxDays :
        /\ Idle
        /\ call' = [op |-> "schedule", days |-> days]
        /\ ret' = create_application_schedule(products, days)
        /\ UNCHANGED <<self, products, kept>>

AdjustForClimate(pairs) ==
    \E pair \in pairs :
        /\ Idle
        /\ call' = [op |-> "adjust", home_climate |-> pair[1], destination_climate |-> pair[2]]
        /\ ret' = adjust_for_climate(products, pair[1], pair[2])
        /\ UNCHANGED <<self, products, kept>>

GetClimateData ==
    \E location \in Locations :
        /\ Idle
        /\ call' = [op |-> "climate", location |-> location]
        /\ ret' = get_climate_data(location)
        /\ UNCHANGED <<self, products, kept>>

\* the caller drops the returned value and is idle again
Return ==
    /\ ~Idle
    /\ call' = [op |-> "none"]
    /\ ret' = None
    /\ UNCHANGED <<self, products, kept>>

\* the caller keeps the value it holds and the list it has, to compare the
\* value with a later one
Keep ==
    /\ ~Idle
    /\ kept' = [call |-> call, ret |-> ret, products |-> products]
    /\ UNCHANGED <<self, products, call, ret>>

\* lines 703-711 and 740-749: the product a submitted form stands for
FormProduct(form) ==
    [name |-> Word(Strip(form.name)),
     ingredients |-> ParseIngredients(Strip(form.ingredients_text)),
     preferred_time |-> form.preferred_time]

\* lines 690-719: the product of the submitted form appended to the list,
\* nothing done for an empty name or an empty ingredient text; the code puts
\* no limit on the list, here it is not let grow past MaxProducts
AddProduct(forms) ==
    \E form \in forms :
        /\ Idle
        /\ Strip(form.name) # <<>>
        /\ Strip(form.ingredients_text) # <<>>
        /\ Len(products) < MaxProducts
        /\ products' = Append(products, FormProduct(form))
        /\ UNCHANGED <<self, call, ret, kept>>

\* lines 721-757: the selected product replaced by the one of the form,
\* nothing done without a selection, for an empty name or an empty ingredient
\* text
UpdateProduct(forms) ==
    \E index \in 1..Len(products) : \E form \in forms :
        /\ Idle
        /\ Strip(form.name) # <<>>
        /\ Strip(form.ingredients_text) # <<>>
        /\ products' = [products EXCEPT ![index] = FormProduct(form)]
        /\ UNCHANGED <<self, call, ret, kept>>

\* lines 759-774: the selected product deleted
RemoveProduct ==
    \E index \in 1..Len(products) :
        /\ Idle
        /\ products' = SubSeq(products, 1, index - 1) \o SubSeq(products, index + 1, Len(products))
        /\ UNCHANGED <<self, call, ret, kept>>

\* lines 776-783
ClearProducts ==
    /\ Idle
    /\ products' = <<>>
    /\ UNCHANGED <<self, call, ret, kept>>

\* __init__ builds the two tables; the caller brings a product list
InitOver(routines) ==
    /\ self = [ingredient_interactions |-> ingredient_interactions,
               climate_effects |-> climate_effects]
    /\ products \in routines
    /\ call = [op |-> "none"]
    /\ ret = None
    /\ kept = [call |-> [op |-> "none"], ret |-> None, products |-> <<>>]

\* the whole engine
Init == InitOver(Routines)

AdjustTable == AdjustForClimate(TableProfiles \X TableProfiles)

AddAny == AddProduct(Forms(RoutineProducts))

UpdateAny == UpdateProduct(Forms(RoutineProducts))

Next ==
    \/ Analyze \/ CreateSchedule \/ AdjustTable \/ GetClimateData \/ Return
    \/ AddAny \/ UpdateAny \/ RemoveProduct \/ ClearProducts

Spec == Init /\ [][Next]_vars

\* the conflict analysis alone, over every ingredient name
InitAnalyze == InitOver(AnalyzeRoutines)

NextAnalyze == Analyze \/ Return

SpecAnalyze == InitAnalyze /\ [][NextAnalyze]_vars

\* the schedule alone
InitSchedule == InitOver(ScheduleRoutines)

NextSchedule == CreateSchedule \/ Return

SpecSchedule == InitSchedule /\ [][NextSchedule]_vars

\* the climate adjustment and the climate lookup
InitClimate == InitOver(ClimateRoutines)

AdjustAny == AdjustForClimate(ClimatePairs)

NextClimate == AdjustAny \/ GetClimateData \/ Return

SpecClimate == InitClimate /\ [][NextClimate]_vars

\* the analysis and the schedule called again and again, a value kept and
\* the list edited between
InitTwice == InitOver(TwiceRoutines)

AddTwice == AddProduct(Forms(TwiceProducts))

UpdateTwice == UpdateProduct(Forms(TwiceProducts))

NextTwice ==
    \/ Analyze \/ CreateSchedule \/ Keep \/ Return
    \/ AddTwice \/ UpdateTwice \/ RemoveProduct \/ ClearProducts

SpecTwice == InitTwice /\ [][NextTwice]_vars

(***************************************************************************)
(* The properties.                                                         *)
(***************************************************************************)
NewYork == [humidity |-> 60, uv_index |-> 5, pollution_index |-> 40]

Miami == [humidity |-> 80, uv_index |-> 9, pollution_index |-> 30]

\* C1: when product A holds a registered ingredient X, product B holds an
\* ingredient Y of X's conflict list and A and B differ by value, the conflicts
\* of analyze_skincare_routine([A, B]) hold the record (A.name, X, B.name, Y)
\* with the waiting time registered for X.
C1_ConflictReported ==
    (call.op = "analyze" /\ Len(products) = 2 /\ products[1] # products[2]) =>
        \A X \in Registered :
            \A y \in 1..Len(ingredient_interactions[X].conflicts) :
                LET Y == ingredient_interactions[X].conflicts[y]
                IN  (InList(X, products[1].ingredients) /\ InList(Y, products[2].ingredients)) =>
                        InList([product1 |-> products[1].name,
                                ingredient1 |-> X,
                                product2 |-> products[2].name,
                                ingredient2 |-> Y,
                                waiting_time |-> ingredient_interactions[X].waiting_time],
                               ret.conflicts)

\* two products of the same name, the first with benzoyl peroxide after another
\* ingredient, the second with vitamin c: the record carries 20 minutes
C1_Witness ==
    /\ call.op = "analyze"
    /\ Len(products) = 2
    /\ products[1].name = products[2].name
    /\ products[1].ingredients = <<"glycerin", "benzoyl peroxide">>
    /\ products[2].ingredients = <<"vitamin c", "peptides">>
    /\ InList([product1 |-> products[1].name, ingredient1 |-> "benzoyl peroxide",
               product2 |-> products[2].name, ingredient2 |-> "vitamin c",
               waiting_time |-> 20], ret.conflicts)

\* C2 as stated: from New York's profile to Miami's the climate changes are
\* [high_humidity, high_uv].
C2_AsStated ==
    (call.op = "adjust" /\ call.home_climate = NewYork /\ call.destination_climate = Miami) =>
        ret.climate_changes = <<"high_humidity", "high_uv">>

\* C2, amended: from {60, 5, 40} to {80, 9, 30} the humidity difference is 20,
\* which is not above 20, and the climate changes are exactly [high_uv]; to
\* {85, 9, 30} they are exactly [high_humidity, high_uv]; for any product list.
C2_HighUvOnly ==
    /\ (call.op = "adjust" /\ call.home_climate = NewYork /\ call.destination_climate = Miami) =>
            ret.climate_changes = <<"high_uv">>
    /\ (call.op = "adjust" /\ call.home_climate = NewYork /\ call.destination_climate = Humid) =>
            ret.climate_changes = <<"high_humidity", "high_uv">>

C2_Witness ==
    /\ call.op = "adjust"
    /\ call.home_climate = NewYork
    /\ call.destination_climate = Miami
    /\ Len(products) = 2
    /\ ret.climate_changes = <<"high_uv">>

\* the ingredient list with the repeats of an ingredient removed, first
\* occurrences kept
RECURSIVE RemoveRepeated(_)
RemoveRepeated(s) ==
    IF s = <<>> THEN <<>>
    ELSE LET init == RemoveRepeated(SubSeq(s, 1, Len(s) - 1))
         IN  IF InList(s[Len(s)], init) THEN init ELSE Append(init, s[Len(s)])

WithoutRepeats(prods) ==
    [i \in 1..Len(prods) |-> [prods[i] EXCEPT !.ingredients = RemoveRepeated(@)]]

\* C3: repeating an ingredient inside a product has no additional effect: the
\* conflicts, the schedule and the adjustments are those of the list whose
\* products have their repeated ingredients removed.
C3_RepeatsNoEffect ==
    /\ call.op = "analyze" =>
            ret.conflicts = analyze_skincare_routine(WithoutRepeats(products)).conflicts
    /\ call.op = "schedule" =>
            ret = create_application_schedule(WithoutRepeats(products), call.days)
    /\ call.op = "adjust" =>
            ret.adjustments =
                adjust_for_climate(WithoutRepeats(products), call.home_climate,
                                   call.destination_climate).adjustments

\* C4: an ingredient name without an entry in the ingredient table occurs in no
\* conflict record, as ingredient1 or as ingredient2, and is a node of the graph.
C4_UnregisteredNeverInConflict ==
    call.op = "analyze" =>
        /\ \A n \in 1..Len(ret.conflicts) :
                /\ ret.conflicts[n].ingredient1 \in Registered
                /\ ret.conflicts[n].ingredient2 \in Registered
        /\ \A i \in 1..Len(products) :
                \A j \in 1..Len(products[i].ingredients) :
                    products[i].ingredients[j] \in DOMAIN ret.graph.nodes

Slots == {"morning", "evening"}

\* C5: the schedule has exactly the days 1..days, each with exactly a morning
\* and an evening sequence; every append the code makes for a product goes to
\* one of these days and slots, and the sequences hold nothing else.
C5_ScheduleShape ==
    call.op = "schedule" =>
        /\ \A i \in 1..Len(products) :
                Placement(products[i], call.days) \subseteq (1..call.days) \X Slots
        /\ DOMAIN ret = 1..call.days
        /\ \A day \in DOMAIN ret :
                /\ DOMAIN ret[day] = Slots
                /\ \A slot \in Slots :
                      /\ \A n \in 1..Len(ret[day][slot]) :
                            \E i \in 1..Len(products) : ret[day][slot][n] = products[i].name
                      /\ Len(ret[day][slot]) =
                            Cardinality({i \in 1..Len(products) :
                                            <<day, slot>> \in Placement(products[i], call.days)})

\* a weekly product in a schedule of 7 days: placed on the last day
C5_Witness ==
    /\ call.op = "schedule"
    /\ call.days = 7
    /\ Len(products) = 2
    /\ products[2].ingredients = <<"glycerin", "glycolic acid">>
    /\ products[2].name = "B"
    /\ InList("B", ret[7].evening)
    /\ ~InList("B", ret[6].evening)

\* the number of times s holds x
Count(x, s) == Cardinality({n \in 1..Len(s) : s[n] = x})

\* the list without its i-th entry
Without(s, i) == SubSeq(s, 1, i - 1) \o SubSeq(s, i + 1, Len(s))

\* how many times the i-th product is placed in a slot of a day: what the
\* returned schedule holds of its name beyond the schedule of the other products
Placed(i, day, slot) ==
    Count(products[i].name, ret[day][slot])
    - Count(products[i].name,
            create_application_schedule(Without(products, i), call.days)[day][slot])

HasGoverning(product) == \E n \in 1..Len(product.ingredients) : product.ingredients[n] \in Registered

\* the first ingredient of the product that is in the ingredient table
Governing(product) ==
    product.ingredients[CHOOSE n \in 1..Len(product.ingredients) :
                            /\ product.ingredients[n] \in Registered
                            /\ \A m \in 1..(n - 1) : product.ingredients[m] \notin Registered]

Expect(b) == IF b THEN 1 ELSE 0

\* C6: a product none of whose ingredients is in the ingredient table is placed
\* on every day once in the morning iff its preferred time is morning or both,
\* and once in the evening iff it is evening or both.
C6_NoActivePlacedByPreference ==
    call.op = "schedule" =>
        \A i \in 1..Len(products) :
            ~HasGoverning(products[i]) =>
                \A day \in 1..call.days :
                    /\ Placed(i, day, "morning")
                        = Expect(products[i].preferred_time \in {"morning", "both"})
                    /\ Placed(i, day, "evening")
                        = Expect(products[i].preferred_time \in {"evening", "both"})

C6_Witness ==
    /\ call.op = "schedule"
    /\ call.days = 3
    /\ Len(products) = 2
    /\ products[1] = [name |-> "A", ingredients |-> <<"glycerin">>, preferred_time |-> "both"]
    /\ products[2] = [name |-> "A", ingredients |-> <<"retinol">>, preferred_time |-> "morning"]
    /\ ret[3] = [morning |-> <<"A">>, evening |-> <<"A", "A">>]

\* C7: a product whose governing ingredient is twice daily is placed once in the
\* morning and once in the evening of every day, whatever its preferred time.
C7_TwiceDailyBothSlots ==
    call.op = "schedule" =>
        \A i \in 1..Len(products) :
            (/\ HasGoverning(products[i])
             /\ ingredient_interactions[Governing(products[i])].frequency = twice_daily) =>
                \A day \in 1..call.days :
                    /\ Placed(i, day, "morning") = 1
                    /\ Placed(i, day, "evening") = 1

C7_Witness ==
    /\ call.op = "schedule"
    /\ call.days = 2
    /\ products = <<[name |-> "A", ingredients |-> <<"glycerin", "niacinamide">>,
                     preferred_time |-> "evening"]>>
    /\ ret[2] = [morning |-> <<"A">>, evening |-> <<"A">>]

\* C8: a product whose governing ingredient is once daily is placed once a day
\* on every day: in the evening only when that ingredient is retinol, in the
\* morning only otherwise, whatever its preferred time.
C8_OnceDailySlotByIngredient ==
    call.op = "schedule" =>
        \A i \in 1..Len(products) :
            (/\ HasGoverning(products[i])
             /\ ingredient_interactions[Governing(products[i])].frequency = once_daily) =>
                \A day \in 1..call.days :
                    /\ Placed(i, day, "evening") = Expect(Governing(products[i]) = "retinol")
                    /\ Placed(i, day, "morning") = Expect(Governing(products[i]) # "retinol")

C8_Witness ==
    /\ call.op = "schedule"
    /\ call.days = 2
    /\ products = <<[name |-> "A", ingredients |-> <<"retinol">>, preferred_time |-> "morning"],
                    [name |-> "B", ingredients |-> <<"benzoyl peroxide", "retinol">>,
                     preferred_time |-> "evening"]>>
    /\ ret[2] = [morning |-> <<"B">>, evening |-> <<"A">>]

Tags == <<"high_humidity", "low_humidity", "high_uv", "high_pollution">>

\* C9: climate_changes holds high_humidity iff the destination is more than 20
\* above home in humidity, low_humidity iff it is more than 20 below, high_uv
\* iff its UV index is more than 2 above, high_pollution iff its pollution
\* index is more than 20 above; never both humidity tags, each tag at most
\* once, in the order high_humidity, low_humidity, high_uv, high_pollution.
C9_ClimateThresholds ==
    call.op = "adjust" =>
        LET home == call.home_climate
            dest == call.destination_climate
            changes == ret.climate_changes
        IN  /\ InList("high_humidity", changes) <=> dest.humidity - home.humidity > 20
            /\ InList("low_humidity", changes) <=> home.humidity - dest.humidity > 20
            /\ InList("high_uv", changes) <=> dest.uv_index - home.uv_index > 2
            /\ InList("high_pollution", changes)
                    <=> dest.pollution_index - home.pollution_index > 20
            /\ ~(InList("high_humidity", changes) /\ InList("low_humidity", changes))
            /\ changes = SelectSeq(Tags, LAMBDA tag : InList(tag, changes))

\* differences of exactly 20, 2 and 20: nothing fires
C9_Witness ==
    /\ call.op = "adjust"
    /\ call.destination_climate.humidity - call.home_climate.humidity = 20
    /\ call.destination_climate.uv_index - call.home_climate.uv_index = 2
    /\ call.destination_climate.pollution_index - call.home_climate.pollution_index = 20
    /\ ret.climate_changes = <<>>

TwelveLocations ==
    {"New York", "Los Angeles", "Miami", "Denver", "Seattle", "Phoenix",
     "Chicago", "Honolulu", "Tokyo", "London", "Dubai", "Sydney"}

\* C10: get_climate_data returns the profile {50, 5, 40} for every name that is
\* not exactly one of the twelve names of the table, and the profile of the
\* location for a name that is.
C10_DefaultProfile ==
    call.op = "climate" =>
        /\ call.location \notin TwelveLocations =>
                ret = [humidity |-> 50, uv_index |-> 5, pollution_index |-> 40]
        /\ call.location \in TwelveLocations => ret = climate_data[call.location]
        /\ call.location = "Miami" => ret = Miami
        /\ call.location = "New York" => ret = NewYork

C10_Witness ==
    /\ call.op = "climate"
    /\ call.location = "miami"
    /\ ret = [humidity |-> 50, uv_index |-> 5, pollution_index |-> 40]

\* C11: for the empty product list the analysis returns no conflict and a graph
\* without nodes and edges, and the schedule has the days 1..days, each with an
\* empty morning and an empty evening sequence.
C11_EmptyRoutine ==
    products = <<>> =>
        /\ call.op = "analyze" =>
                /\ ret.conflicts = <<>>
                /\ DOMAIN ret.graph.nodes = {}
                /\ DOMAIN ret.graph.edges = {}
        /\ call.op = "schedule" =>
                /\ DOMAIN ret = 1..call.days
                /\ \A day \in 1..call.days : ret[day] = [morning |-> <<>>, evening |-> <<>>]

C11_Witness ==
    /\ products = <<>>
    /\ call.op = "schedule"
    /\ call.days = 7
    /\ ret[7] = [morning |-> <<>>, evening |-> <<>>]

NoRepeats(prods) ==
    \A i \in 1..Len(prods) : RemoveRepeated(prods[i].ingredients) = prods[i].ingredients

\* the combinations (entry of P1, ingredient of P1, entry of P2, ingredient of P2)
\* that conflict: entries different by value, I1 registered, I2 listed by I1
ConflictCombinations ==
    {c \in (1..Len(products)) \X (1..MaxIngredients) \X (1..Len(products)) \X (1..MaxIngredients) :
        /\ c[2] <= Len(products[c[1]].ingredients)
        /\ c[4] <= Len(products[c[3]].ingredients)
        /\ products[c[1]] # products[c[3]]
        /\ products[c[1]].ingredients[c[2]] \in Registered
        /\ InList(products[c[3]].ingredients[c[4]],
                  ingredient_interactions[products[c[1]].ingredients[c[2]]].conflicts)}

\* the record of a combination: the waiting time is that of its own ingredient1
RecordOf(c) ==
    [product1 |-> products[c[1]].name,
     ingredient1 |-> products[c[1]].ingredients[c[2]],
     product2 |-> products[c[3]].name,
     ingredient2 |-> products[c[3]].ingredients[c[4]],
     waiting_time |-> ingredient_interactions[products[c[1]].ingredients[c[2]]].waiting_time]

\* C13: without repeated ingredients inside a product, conflicts holds one
\* record for each conflicting combination and no other record; in particular
\* nothing for a single product or for two entries equal by value, and one
\* record per direction when two ingredients list each other.
C13_ExactlyTheCombinations ==
    (call.op = "analyze" /\ NoRepeats(products)) =>
        /\ \A n \in 1..Len(ret.conflicts) :
                \E c \in ConflictCombinations : ret.conflicts[n] = RecordOf(c)
        /\ \A c \in ConflictCombinations :
                Count(RecordOf(c), ret.conflicts)
                    = Cardinality({d \in ConflictCombinations : RecordOf(d) = RecordOf(c)})
        /\ Len(products) = 1 => ret.conflicts = <<>>
        /\ (Len(products) = 2 /\ products[1] = products[2]) => ret.conflicts = <<>>

\* retinol and vitamin c list each other: one record per direction, 30 and 15
C13_Witness ==
    /\ call.op = "analyze"
    /\ Len(products) = 2
    /\ products[1].ingredients = <<"retinol">>
    /\ products[2].ingredients = <<"vitamin c">>
    /\ products[1].name = "A"
    /\ products[2].name = "A"
    /\ ret.conflicts =
        <<[product1 |-> "A", ingredient1 |-> "retinol", product2 |-> "A",
           ingredient2 |-> "vitamin c", waiting_time |-> 30],
          [product1 |-> "A", ingredient1 |-> "vitamin c", product2 |-> "A",
           ingredient2 |-> "retinol", waiting_time |-> 15]>>

\* C14: a product whose governing ingredient is "2-3 times weekly" is placed
\* once on each day d of 1..days with d - 1 divisible by max(1, days div 2) and
\* on no other day, in the evening for glycolic acid and in the morning for
\* salicylic acid, whatever its preferred time; for 7 days: days 1, 4 and 7.
C14_WeeklyEveryInterval ==
    /\ ingredient_interactions["glycolic acid"].frequency = times_weekly_2_3
    /\ ingredient_interactions["salicylic acid"].frequency = times_weekly_2_3
    /\ call.op = "schedule" =>
        \A i \in 1..Len(products) :
            (/\ HasGoverning(products[i])
             /\ Governing(products[i]) \in {"glycolic acid", "salicylic acid"}) =>
                LET half == call.days \div 2
                    interval == IF half >= 1 THEN half ELSE 1
                    slot == IF Governing(products[i]) = "glycolic acid"
                            THEN "evening" ELSE "morning"
                    other == IF slot = "evening" THEN "morning" ELSE "evening"
                IN  /\ \A day \in 1..call.days :
                        /\ Placed(i, day, slot) = Expect((day - 1) % interval = 0)
                        /\ Placed(i, day, other) = 0
                    /\ call.days = 7 =>
                        {day \in 1..7 : Placed(i, day, slot) = 1} = {1, 4, 7}

C14_Witness ==
    /\ call.op = "schedule"
    /\ call.days = 7
    /\ products = <<[name |-> "A", ingredients |-> <<"salicylic acid", "retinol">>,
                     preferred_time |-> "evening"]>>
    /\ \A day \in 1..7 : ret[day].evening = <<>>
    /\ {day \in 1..7 : ret[day].morning = <<"A">>} = {1, 4, 7}

\* the products, each one that has a governing ingredient reduced to it
OnlyGoverning(prods) ==
    [i \in 1..Len(prods) |->
        IF HasGoverning(prods[i])
        THEN [prods[i] EXCEPT !.ingredients = <<Governing(prods[i])>>]
        ELSE prods[i]]

\* C15: the placement of a product is decided by its first registered
\* ingredient alone: the schedule is the one of the same products with the
\* unregistered ingredients before it and every ingredient after it removed.
C15_FirstRegisteredDecides ==
    call.op = "schedule" =>
        ret = create_application_schedule(OnlyGoverning(products), call.days)

C15_Witness ==
    /\ call.op = "schedule"
    /\ call.days = 3
    /\ products = <<[name |-> "A", ingredients |-> <<"niacinamide", "retinol">>,
                     preferred_time |-> "evening"]>>
    /\ \A day \in 1..3 : ret[day] = [morning |-> <<"A">>, evening |-> <<"A">>]

\* s is t with some of its entries left out, the others in the order of t
RECURSIVE IsSubsequence(_, _)
IsSubsequence(s, t) ==
    IF s = <<>> THEN TRUE
    ELSE IF t = <<>> THEN FALSE
    ELSE IF Head(s) = Head(t) THEN IsSubsequence(Tail(s), Tail(t))
    ELSE IsSubsequence(s, Tail(t))

\* C16: in every slot of every day a name occurs at most as often as there are
\* input products with that name, and the names of a slot are in the order of
\* the input products: the slot is the list of input names with some left out.
C16_SlotFollowsInput ==
    call.op = "schedule" =>
        LET names == [i \in 1..Len(products) |-> products[i].name]
        IN  \A day \in 1..call.days : \A slot \in Slots :
                /\ \A name \in Names : Count(name, ret[day][slot]) <= Count(name, names)
                /\ IsSubsequence(ret[day][slot], names)

C16_Witness ==
    /\ call.op = "schedule"
    /\ call.days = 2
    /\ Len(products) = 2
    /\ products[1].name = "A"
    /\ products[2].name = "B"
    /\ products[1].ingredients = <<"retinol">>
    /\ products[2].preferred_time = "both"
    /\ ret[1].evening = <<"A", "B">>
    /\ ret[1].morning = <<"B">>

\* the order of triples of numbers: by the first, then the second, then the third
Before(u, t) ==
    \/ u[1] < t[1]
    \/ u[1] = t[1] /\ u[2] < t[2]
    \/ u[1] = t[1] /\ u[2] = t[2] /\ u[3] < t[3]

\* C17: for products without repeated ingredients, adjustments holds first one
\* ingredient-specific record per (product, registered ingredient with a
\* directive for the tag, fired tag), ordered by product, then ingredient, then
\* tag; then one general record per (fired tag, "recommended" or "avoid", item
\* of that list), ordered by tag, recommended before avoid, then table order;
\* nothing else, nothing from "increase" or "decrease", nothing when no tag fires.
C17_AdjustmentsExactly ==
    (call.op = "adjust" /\ NoRepeats(products)) =>
        LET changes == ret.climate_changes
            adj == ret.adjustments
            kinds == <<"recommended", "avoid">>
            directives(ingredient) == ingredient_interactions[ingredient].climate_adjustments
            specific ==
                {t \in (1..Len(products)) \X (1..MaxIngredients) \X (1..Len(changes)) :
                    /\ t[2] <= Len(products[t[1]].ingredients)
                    /\ products[t[1]].ingredients[t[2]] \in DOMAIN ingredient_interactions
                    /\ changes[t[3]] \in DOMAIN directives(products[t[1]].ingredients[t[2]])}
            general ==
                {t \in (1..Len(changes)) \X (1..2) \X (1..3) :
                    t[3] <= Len(climate_effects[changes[t[1]]][kinds[t[2]]])}
            at(set, t) == 1 + Cardinality({u \in set : Before(u, t)})
        IN  /\ Len(adj) = Cardinality(specific) + Cardinality(general)
            /\ \A t \in specific :
                    adj[at(specific, t)] =
                        [product |-> products[t[1]].name,
                         ingredient |-> products[t[1]].ingredients[t[2]],
                         climate_factor |-> changes[t[3]],
                         adjustment |-> directives(products[t[1]].ingredients[t[2]])[changes[t[3]]]]
            /\ \A t \in general :
                    adj[Cardinality(specific) + at(general, t)] =
                        [product |-> None,
                         ingredient |-> None,
                         climate_factor |-> changes[t[1]],
                         adjustment_type |-> kinds[t[2]],
                         adjustment |-> climate_effects[changes[t[1]]][kinds[t[2]]][t[3]]]
            /\ \A n \in 1..Len(adj) :
                    "adjustment_type" \in DOMAIN adj[n] =>
                        adj[n].adjustment_type \notin {"increase", "decrease"}
            /\ changes = <<>> => adj = <<>>

\* low humidity and high pollution fire for two products: the first has two
\* registered ingredients, the second an unregistered one before a registered
\* one; the records go by product, then by ingredient, then by tag
C17_Witness ==
    /\ call.op = "adjust"
    /\ products = <<[name |-> "A", ingredients |-> <<"vitamin c", "retinol">>,
                     preferred_time |-> "both"],
                    [name |-> "B", ingredients |-> <<"glycerin", "retinol">>,
                     preferred_time |-> "both"]>>
    /\ ret.climate_changes = <<"low_humidity", "high_pollution">>
    /\ Len(ret.adjustments) = 15
    /\ [n \in 1..6 |-> <<ret.adjustments[n].product, ret.adjustments[n].ingredient,
                          ret.adjustments[n].climate_factor>>]
            = << <<"A", "vitamin c", "low_humidity">>, <<"A", "vitamin c", "high_pollution">>,
                 <<"A", "retinol", "low_humidity">>, <<"A", "retinol", "high_pollution">>,
                 <<"B", "retinol", "low_humidity">>, <<"B", "retinol", "high_pollution">> >>
    /\ ret.adjustments[2].adjustment = "increase frequency"
    /\ ret.adjustments[3].adjustment = "add moisturizer after"
    /\ ret.adjustments[11].adjustment = "alcohol-based products"
    /\ ret.adjustments[15] = [product |-> None, ingredient |-> None,
                              climate_factor |-> "high_pollution",
                              adjustment_type |-> "avoid", adjustment |-> "skip cleansing"]

\* C18: the graph has one edge per unordered pair of ingredient nodes, however
\* many conflict records map to the pair: its attributes are type "conflict"
\* and the waiting_time of the last record of conflicts whose ingredient1 and
\* ingredient2 are that pair in either direction; ingredient nodes without such
\* a record have no edge between them.
C18_OneConflictEdge ==
    call.op = "analyze" =>
        LET conflicts == ret.conflicts
            graph == ret.graph
            ingredient_nodes ==
                {n \in DOMAIN graph.nodes :
                    /\ "type" \in DOMAIN graph.nodes[n]
                    /\ graph.nodes[n].type = "ingredient"}
            pair(n) == {conflicts[n].ingredient1, conflicts[n].ingredient2}
        IN  /\ \A n \in 1..Len(conflicts) :
                LET last == CHOOSE m \in n..Len(conflicts) :
                                /\ pair(m) = pair(n)
                                /\ \A k \in (m + 1)..Len(conflicts) : pair(k) # pair(n)
                IN  /\ pair(n) \subseteq ingredient_nodes
                    /\ pair(n) \in DOMAIN graph.edges
                    /\ graph.edges[pair(n)] =
                            [type |-> "conflict", waiting_time |-> conflicts[last].waiting_time]
            /\ \A a \in ingredient_nodes : \A b \in ingredient_nodes \ {a} :
                    {a, b} \in DOMAIN graph.edges =>
                        \E n \in 1..Len(conflicts) : pair(n) = {a, b}

\* retinol (30 minutes) and vitamin c (15 minutes) conflict in both directions:
\* two records, one edge, the waiting time of the second record
C18_Witness ==
    /\ call.op = "analyze"
    /\ products = <<[name |-> "A", ingredients |-> <<"retinol">>, preferred_time |-> "evening"],
                    [name |-> "B", ingredients |-> <<"vitamin c">>, preferred_time |-> "morning"]>>
    /\ Len(ret.conflicts) = 2
    /\ ret.conflicts[1].waiting_time = 30
    /\ ret.conflicts[2].waiting_time = 15
    /\ ret.graph.edges[{"retinol", "vitamin c"}] = [type |-> "conflict", waiting_time |-> 15]

\* C19: no call, in any sequence of calls and edits of the list by the
\* caller, changes the ingredient table, the climate-effects table or the
\* caller's product list; adjusted_routine of adjust_for_climate is the input
\* product list, unchanged and in input order.
C19_CallsLeaveInputsAlone ==
    [][/\ self' = self
       /\ call'.op # "none" => products' = products
       /\ call'.op = "adjust" => ret'.adjusted_routine = products]_vars

\* a product with a directive and one without, both passed through
C19_Witness ==
    /\ call.op = "adjust"
    /\ self = [ingredient_interactions |-> ingredient_interactions,
               climate_effects |-> climate_effects]
    /\ products = <<[name |-> "A", ingredients |-> <<"glycerin">>, preferred_time |-> "both"],
                    [name |-> "B", ingredients |-> <<"retinol">>, preferred_time |-> "both"]>>
    /\ ret.climate_changes = <<"high_uv">>
    /\ ret.adjusted_routine = products
    /\ Len(ret.adjustments) = 5

\* C20: a product governed by glycolic acid or salicylic acid is placed on at
\* least 2 and at most 3 days of a schedule of 2 days or more, day 1 among
\* them, and exactly once, on day 1, in a schedule of 1 day.
C20_TwoOrThreeDays ==
    call.op = "schedule" =>
        \A i \in 1..Len(products) :
            (/\ HasGoverning(products[i])
             /\ Governing(products[i]) \in {"glycolic acid", "salicylic acid"}) =>
                LET times(day) == Placed(i, day, "morning") + Placed(i, day, "evening")
                    placed == {day \in 1..call.days : times(day) >= 1}
                IN  /\ \A day \in placed : times(day) = 1
                    /\ call.days >= 2 =>
                        /\ Cardinality(placed) \in 2..3
                        /\ 1 \in placed
                    /\ call.days = 1 => placed = {1}

\* five days: days 1, 3 and 5
C20_Witness ==
    /\ call.op = "schedule"
    /\ call.days = 5
    /\ products = <<[name |-> "A", ingredients |-> <<"glycolic acid">>,
                     preferred_time |-> "morning"]>>
    /\ {day \in 1..5 : ret[day].evening = <<"A">>} = {1, 3, 5}

====
